---------------------------- MODULE Spec2Model ----------------------------
(***************************************************************************)
(* A model of the walgo write-ahead log: the entry codec (entry.go), the   *)
(* segment and the Wal (segment.go) and the Reader.                        *)
(*                                                                         *)
(* Segment files are byte sequences, laid out as writeEntry lays them out. *)
(* A file handle is an offset into its file.  Times are (sec, nsec) pairs; *)
(* time.Now() is a clock that never runs backwards.  Values of 2^16 and    *)
(* more exceed every index, length and offset of the model and are         *)
(* collapsed to Huge when decoded.                                         *)
(***************************************************************************)
EXTENDS Integers, Sequences, FiniteSets, TLC

VARIABLES
  disk,      \* the *.wal files of the directory: path -> bytes
  cfgFile,   \* the contents of config.json
  wal,       \* the Wal object
  now,       \* the clock: sec of the last time.Now()
  rd,        \* the Reader: <<>> when there is none, else <<r>>
  appended,  \* history: the entries of the Write calls that returned nil
  werrs,     \* history: the number of Write calls that returned an error
  faults,    \* the number of I/O failures injected so far
  got,       \* history: the entries returned by the reader's Next calls
  ret,       \* the last call and what it returned
  rinfo,     \* history: how and when the reader was opened
  old,       \* the Wal object a Load replaced
  codec      \* the entry codec on a byte sequence of its own: see SpecCodec

vars == <<disk, cfgFile, wal, now, rd, appended, werrs, faults, got, ret, rinfo, old,
          codec>>

---------------------------------------------------------------------------
(* Bounds *)

MaxWrites == 3
MaxFaults == 1
MaxNexts == 5
MaxEntries == 2

\* the payloads handed to Write, the MaxSegmentSize options of New, the
\* seconds that pass between two calls of time.Now(), and the byte counts a
\* failing write(2) leaves behind
Payloads == {<<>>, <<7>>}
SegSizes == {0, 36}
Steps == {0, 2}
TornLens == {0, 12}

\* the entries handed to the codec alone: indexes, payloads and times
CodecIndexes == {0, 258}
CodecData == {<<>>, <<7>>, <<0, 255, 7>>}
CodecTimes == {[sec |-> 1, nsec |-> 0], [sec |-> 259, nsec |-> 513]}

Huge == 256 * 256

---------------------------------------------------------------------------
(* Bytes and integer encodings (encoding/binary, little endian; the time    *)
(* encoding is big endian)                                                 *)

Digit256(n, i) ==
  IF i = 1 THEN n % 256
  ELSE IF i = 2 THEN (n \div 256) % 256
  ELSE 0

\* PutLE with the bytes in big endian order
PutLEReversed(n, w) == [i \in 1..w |-> Digit256(n, w + 1 - i)]

\* binary.Write(buffer, binary.LittleEndian, v) of an unsigned integer of w bytes
PutLE(n, w) == [i \in 1..w |-> Digit256(n, i)]

\* big endian, as Time.MarshalBinary writes sec and nsec
PutBE(n, w) == [i \in 1..w |-> Digit256(n, w + 1 - i)]

HighZero(bs, from) == \A i \in from..Len(bs) : bs[i] = 0

\* binary.Read(reader, binary.LittleEndian, &v)
GetLE(bs) ==
  IF HighZero(bs, 3) THEN bs[1] + 256 * bs[2] ELSE Huge

GetBE(bs) ==
  LET n == Len(bs) IN
  IF \A i \in 1..(n - 2) : bs[i] = 0 THEN bs[n] + 256 * bs[n - 1] ELSE Huge

RECURSIVE XorBits(_, _, _)
XorBits(a, b, k) ==
  IF k = 0 THEN 0
  ELSE (IF (a % 2) # (b % 2) THEN 1 ELSE 0) + 2 * XorBits(a \div 2, b \div 2, k - 1)

XorByte(a, b) == XorBits(a, b, 8)

\* a 32-bit word is its four bytes, least significant first
XorWord(x, y) ==
  <<XorByte(x[1], y[1]), XorByte(x[2], y[2]), XorByte(x[3], y[3]), XorByte(x[4], y[4])>>

ShiftRight1(x) ==
  <<(x[1] \div 2) + (x[2] % 2) * 128, (x[2] \div 2) + (x[3] % 2) * 128,
    (x[3] \div 2) + (x[4] % 2) * 128, x[4] \div 2>>

ShiftRight8(x) == <<x[2], x[3], x[4], 0>>

NotWord(x) == <<255 - x[1], 255 - x[2], 255 - x[3], 255 - x[4]>>

\* crc32.Castagnoli, reversed: 0x82f63b78
Castagnoli == <<120, 59, 246, 130>>

RECURSIVE CrcBits(_, _)
CrcBits(x, k) ==
  IF k = 0 THEN x
  ELSE CrcBits(IF x[1] % 2 = 1 THEN XorWord(ShiftRight1(x), Castagnoli)
               ELSE ShiftRight1(x), k - 1)

\* table = crc32.MakeTable(crc32.Castagnoli)
table == [b \in 0..255 |-> CrcBits(<<b, 0, 0, 0>>, 8)]

RECURSIVE CrcUpdate(_, _, _)
CrcUpdate(crc, data, i) ==
  IF i > Len(data) THEN crc
  ELSE CrcUpdate(XorWord(table[XorByte(crc[1], data[i])], ShiftRight8(crc)), data, i + 1)

\* crc32.Checksum(data, table)
Checksum(data) == NotWord(CrcUpdate(<<255, 255, 255, 255>>, data, 1))

---------------------------------------------------------------------------
(* time.Time *)

ZeroTime == [sec |-> 0, nsec |-> 0]

IsZero(t) == t.sec = 0 /\ t.nsec = 0

After(t, u) == t.sec > u.sec \/ (t.sec = u.sec /\ t.nsec > u.nsec)

Before(t, u) == After(u, t)

Equal(t, u) == t.sec = u.sec /\ t.nsec = u.nsec

At(s) == [sec |-> s, nsec |-> 0]

\* t.In(time.UTC).MarshalBinary(): version 1, sec, nsec, zone offset -1 (UTC)
MarshalBinary(t) == <<1>> \o PutBE(t.sec, 8) \o PutBE(t.nsec, 4) \o <<255, 255>>

\* Time.UnmarshalBinary: the zone does not change the instant
UnmarshalBinary(buf) ==
  IF buf[1] # 1
    THEN [err |-> "UnmarshalBinary", t |-> ZeroTime]
    ELSE [err |-> "nil",
          t |-> [sec |-> GetBE(SubSeq(buf, 2, 9)), nsec |-> GetBE(SubSeq(buf, 10, 13))]]

---------------------------------------------------------------------------
(* Entry codec *)

ConstEntrySize == 35

NoEntry == [Index |-> 0, Length |-> 0, Data |-> <<>>, Timestamp |-> ZeroTime,
            Crc32 |-> <<0, 0, 0, 0>>]

newMessage(index, data, t) ==
  [Index |-> index, Length |-> Len(data), Data |-> data, Timestamp |-> t,
   Crc32 |-> Checksum(data)]

size(m) == ConstEntrySize + Len(m.Data)

\* the buffer writeEntry hands to writer.Write
EntryBytes(m) ==
  PutLE(m.Index, 8) \o PutLE(m.Length, 4) \o m.Data \o MarshalBinary(m.Timestamp)
    \o m.Crc32 \o PutLE(m.Length, 4)

\* (*os.File).Write at offset pos: n bytes of buf reach the file
WriteAt(f, pos, buf, n) ==
  LET end == IF pos + n > Len(f) THEN pos + n ELSE Len(f) IN
  [i \in 1..end |-> IF i > pos /\ i <= pos + n THEN buf[i - pos] ELSE f[i]]

\* binary.Read of n bytes at offset pos (io.ReadFull)
ReadAt(f, pos, n) ==
  IF n = 0 THEN [err |-> "nil", bytes |-> <<>>, pos |-> pos]
  ELSE IF pos >= Len(f) THEN [err |-> "EOF", bytes |-> <<>>, pos |-> pos]
  ELSE IF Len(f) - pos < n
    THEN [err |-> "ErrUnexpectedEOF", bytes |-> <<>>, pos |-> Len(f)]
  ELSE [err |-> "nil", bytes |-> SubSeq(f, pos + 1, pos + n), pos |-> pos + n]

\* the read, its file, its offset and its count being values
ReadN(f, pos, n) ==
  CHOOSE r \in {ReadAt(g, p, k) : g \in {f}, p \in {pos}, k \in {n}} : TRUE

\* Mismatch finding every checksum right
MismatchNever(data, crc) == FALSE

\* crc32.Checksum(m.Data, table) != m.Crc32
Mismatch(data, crc) == \E d \in {data} : Checksum(d) # crc

ReadFail(e, p) == [err |-> e, entry |-> NoEntry, pos |-> p]

readEntry(f, pos) ==
  LET r1 == ReadN(f, pos, 8) IN
  IF r1.err # "nil" THEN ReadFail(r1.err, r1.pos) ELSE
  LET r2 == ReadN(f, r1.pos, 4) IN
  IF r2.err # "nil" THEN ReadFail(r2.err, r2.pos) ELSE
  LET r3 == ReadN(f, r2.pos, GetLE(r2.bytes)) IN
  IF r3.err # "nil" THEN ReadFail(r3.err, r3.pos) ELSE
  LET r4 == ReadN(f, r3.pos, 15) IN
  IF r4.err # "nil" THEN ReadFail(r4.err, r4.pos) ELSE
  LET tm == UnmarshalBinary(r4.bytes) IN
  IF tm.err # "nil" THEN ReadFail(tm.err, r4.pos) ELSE
  LET r5 == ReadN(f, r4.pos, 4) IN
  IF r5.err # "nil" THEN ReadFail(r5.err, r5.pos) ELSE
  LET r6 == ReadN(f, r5.pos, 4) IN
  IF r6.err # "nil" THEN ReadFail(r6.err, r6.pos) ELSE
  IF Mismatch(r3.bytes, r5.bytes) THEN ReadFail("ErrCrc32Mismatch", r6.pos)
  ELSE [err |-> "nil",
        entry |-> [Index |-> GetLE(r1.bytes), Length |-> GetLE(r6.bytes),
                   Data |-> r3.bytes, Timestamp |-> tm.t, Crc32 |-> r5.bytes],
        pos |-> r6.pos]

\* BackStep without the constant part of the entry
BackStepLength(bs) == IF HighZero(bs, 3) THEN GetLE(bs) ELSE Huge

\* uint32(length + ConstEntrySize): the sum wraps at 2^32
BackStep(bs) ==
  IF bs[2] = 255 /\ bs[3] = 255 /\ bs[4] = 255 /\ bs[1] + ConstEntrySize >= 256
    THEN bs[1] + ConstEntrySize - 256
  ELSE IF HighZero(bs, 3) THEN GetLE(bs) + ConstEntrySize
  ELSE Huge

gotoPreviousEntry(f, pos) ==
  IF pos = 0 THEN [err |-> "ErrNoPreviousEntry", pos |-> pos]
  ELSE IF pos < 4 THEN [err |-> "EINVAL", pos |-> pos]
  ELSE LET r == ReadN(f, pos - 4, 4) IN
       IF r.err # "nil" THEN [err |-> r.err, pos |-> r.pos]
       ELSE IF r.pos - BackStep(r.bytes) < 0 THEN [err |-> "EINVAL", pos |-> r.pos]
       ELSE [err |-> "nil", pos |-> r.pos - BackStep(r.bytes)]

readPreviousEntry(f, pos) ==
  CHOOSE e \in {IF g.err # "nil" THEN ReadFail(g.err, g.pos) ELSE readEntry(f, g.pos) :
                  g \in {gotoPreviousEntry(f, pos)}} : TRUE

---------------------------------------------------------------------------
(* Segment files and their names *)

\* fmt.Sprintf("%020d.wal", index): the twenty digits
SegName(index) ==
  [i \in 1..20 |-> IF i = 20 THEN index % 10
                   ELSE IF i = 19 THEN (index \div 10) % 10
                   ELSE IF i = 18 THEN (index \div 100) % 10
                   ELSE 0]

\* fmt.Sscanf(name, "%d.wal", &current)
ScanName(name) ==
  IF \A i \in 1..17 : name[i] = 0
    THEN name[20] + 10 * name[19] + 100 * name[18]
    ELSE Huge

\* string order of two names, as slices.Sort orders the paths
RECURSIVE NameLess(_, _, _)
NameLess(p, q, i) ==
  IF i > 20 THEN FALSE
  ELSE IF p[i] # q[i] THEN p[i] < q[i]
  ELSE NameLess(p, q, i + 1)

RECURSIVE SortPaths(_)
SortPaths(S) ==
  IF S = {} THEN <<>>
  ELSE LET m == CHOOSE p \in S : \A q \in S \ {p} : NameLess(p, q, 1)
       IN <<m>> \o SortPaths(S \ {m})

ClosedFile == [open |-> FALSE, pos |-> 0]

OpenAt(p) == [open |-> TRUE, pos |-> p]

NoSegment ==
  [firstIndex |-> 0, lastIndex |-> 0, firstTimestamp |-> ZeroTime,
   lastTimestamp |-> ZeroTime, path |-> SegName(0), file |-> ClosedFile,
   fileLength |-> 0]

\* os.Create truncates; fail: the call returns an error
createSegment(dsk, index, fail) ==
  IF fail THEN [err |-> "EIO", seg |-> NoSegment, disk |-> dsk]
  ELSE [err |-> "nil",
        seg |-> [firstIndex |-> index, lastIndex |-> index,
                 firstTimestamp |-> ZeroTime, lastTimestamp |-> ZeroTime,
                 path |-> SegName(index), file |-> OpenAt(0), fileLength |-> 0],
        disk |-> (SegName(index) :> <<>>) @@ dsk]

\* the segment loadSegment returns for the file at path, of length bytes:
\* m is what reading its first entry gave, p what reading its last one gave
LoadedSegment(path, length, m, p) ==
  IF m.err \notin {"nil", "EOF"} THEN [err |-> m.err, seg |-> NoSegment]
  ELSE IF length > 0 /\ p.err # "nil" THEN [err |-> p.err, seg |-> NoSegment]
  ELSE [err |-> "nil",
        seg |-> [firstIndex |-> ScanName(path),
                 lastIndex |-> IF length > 0 THEN p.entry.Index ELSE ScanName(path),
                 firstTimestamp |-> IF m.err = "nil" THEN m.entry.Timestamp
                                    ELSE ZeroTime,
                 lastTimestamp |-> IF length > 0 THEN p.entry.Timestamp
                                   ELSE IF m.err = "nil" THEN m.entry.Timestamp
                                   ELSE ZeroTime,
                 path |-> path, file |-> ClosedFile, fileLength |-> length]]

loadSegment(dsk, path) ==
  CHOOSE l \in {LoadedSegment(path, Len(dsk[path]), m, p) :
                  m \in {readEntry(dsk[path], 0)},
                  p \in {readPreviousEntry(dsk[path], Len(dsk[path]))}} : TRUE

\* segment.open
open(s) ==
  IF s.file.open THEN [err |-> "ErrFileAlreadyOpen", seg |-> s]
  ELSE [err |-> "nil", seg |-> [s EXCEPT !.file = OpenAt(0)]]

NoFault == [kind |-> "none", n |-> 0]

\* the I/O failures of one call: write(2) failing after n bytes, fsync,
\* close and create failing
Faults ==
  {NoFault} \cup {[kind |-> "write", n |-> k] : k \in TornLens}
    \cup {[kind |-> k, n |-> 0] : k \in {"sync", "close", "create"}}

\* segment.write; hit: the injected failure was met
write(s, dsk, message, fault) ==
  LET buf == EntryBytes(message) IN
  IF ~s.file.open
    THEN [err |-> "ErrInvalid", seg |-> s, disk |-> dsk, hit |-> FALSE]
  ELSE IF fault.kind = "write"
    THEN [err |-> "EIO",
          seg |-> [s EXCEPT !.file = OpenAt(s.file.pos + fault.n)],
          disk |-> [dsk EXCEPT ![s.path] = WriteAt(@, s.file.pos, buf, fault.n)],
          hit |-> TRUE]
  ELSE [err |-> "nil",
        seg |-> [s EXCEPT !.lastIndex = message.Index,
                          !.lastTimestamp = message.Timestamp,
                          !.firstTimestamp = IF s.fileLength = 0
                                               THEN message.Timestamp ELSE @,
                          !.fileLength = @ + size(message),
                          !.file = OpenAt(s.file.pos + Len(buf))],
        disk |-> [dsk EXCEPT ![s.path] = WriteAt(@, s.file.pos, buf, Len(buf))],
        hit |-> FALSE]

\* segment.flush
flush(s, fault) ==
  IF ~s.file.open THEN [err |-> "ErrInvalid", hit |-> FALSE]
  ELSE IF fault.kind = "sync" THEN [err |-> "EIO", hit |-> TRUE]
  ELSE [err |-> "nil", hit |-> FALSE]

\* close without s.file = nil
closeKeepsFile(s, fault) ==
  [err |-> IF ~s.file.open THEN "ErrInvalid"
           ELSE IF fault.kind = "close" THEN "EIO" ELSE "nil",
   seg |-> s,
   hit |-> s.file.open /\ fault.kind = "close"]

\* segment.close
close(s, fault) ==
  [err |-> IF ~s.file.open THEN "ErrInvalid"
           ELSE IF fault.kind = "close" THEN "EIO" ELSE "nil",
   seg |-> [s EXCEPT !.file = ClosedFile],
   hit |-> s.file.open /\ fault.kind = "close"]

---------------------------------------------------------------------------
(* Wal *)

NoConfig ==
  [MaxSegmentSize |-> 0, MaxSegmentCount |-> 0, ExpirationTime |-> 0,
   ExpirationInterval |-> 0]

ConfigFields ==
  <<"MaxSegmentSize", "MaxSegmentCount", "ExpirationTime", "ExpirationInterval">>

\* writeConfigToDisk: the JSON object, member by member
writeConfigToDisk(config) ==
  [i \in 1..Len(ConfigFields) |-> [key |-> ConfigFields[i], value |-> config[ConfigFields[i]]]]

\* json.NewDecoder(config).Decode(&wal.config): a missing member stays zero
DecodeConfig(json) ==
  [k \in {ConfigFields[i] : i \in 1..Len(ConfigFields)} |->
     IF \E i \in 1..Len(json) : json[i].key = k
       THEN json[CHOOSE i \in 1..Len(json) : json[i].key = k].value
       ELSE 0]

\* WithMaxSegmentSize
WithMaxSegmentSize(config, maxSegmentSize) ==
  [config EXCEPT !.MaxSegmentSize = maxSegmentSize]

\* New(path, WithMaxSegmentSize(m)) on a path that does not exist;
\* current is the position of the active segment in segments, 0 for nil
New(m) ==
  LET c == createSegment(<<>>, 0, FALSE) IN
  [wal |-> [current |-> 1, segments |-> <<c.seg>>,
            config |-> WithMaxSegmentSize(NoConfig, m), index |-> 0],
   disk |-> c.disk,
   cfgFile |-> writeConfigToDisk(WithMaxSegmentSize(NoConfig, m))]

\* Wal.Close, f being what the flush gave and c what the close gave
Closed(w, f, c) ==
  IF f.err # "nil" THEN [err |-> f.err, wal |-> w, hit |-> f.hit]
  ELSE [err |-> c.err, wal |-> [w EXCEPT !.segments[w.current] = c.seg], hit |-> c.hit]

\* Wal.Close
WalClose(w, fault) ==
  Closed(w, flush(w.segments[w.current], fault), close(w.segments[w.current], fault))

\* Wal.cycle after wal.Close(), n being what createSegment gave
Created(w, dsk, n) ==
  IF n.err # "nil"
    THEN [err |-> n.err, wal |-> [w EXCEPT !.current = 0], disk |-> dsk, hit |-> TRUE]
  ELSE [err |-> "nil",
        wal |-> [w EXCEPT !.segments = Append(@, n.seg),
                          !.current = Len(w.segments) + 1],
        disk |-> n.disk, hit |-> FALSE]

\* Wal.cycle, c being what wal.Close() gave
Cycled(dsk, fault, c) ==
  IF c.err # "nil" THEN [err |-> c.err, wal |-> c.wal, disk |-> dsk, hit |-> c.hit]
  ELSE Created(c.wal, dsk, createSegment(dsk, c.wal.index, fault.kind = "create"))

\* Wal.cycle
cycle(w, dsk, fault) == Cycled(dsk, fault, WalClose(w, fault))

\* Full with a strict comparison of the file length
FullStrict(w) ==
  /\ w.config.MaxSegmentSize # 0
  /\ w.segments[w.current].fileLength > w.config.MaxSegmentSize

\* whether Write finds the current segment full
Full(w) ==
  /\ w.config.MaxSegmentSize # 0
  /\ w.segments[w.current].fileLength >= w.config.MaxSegmentSize

\* the increment of wal.index that follows wal.current.write
NextIndex(index, err) == index + 1

\* the end of Wal.Write, r being what wal.current.write gave
Written(w, r) ==
  [err |-> r.err,
   wal |-> [w EXCEPT !.segments[w.current] = r.seg, !.index = NextIndex(@, r.err)],
   disk |-> r.disk, hit |-> r.hit, made |-> TRUE]

\* err = wal.current.write(newMessage(wal.index, message)); wal.index++
WriteCurrent(w, dsk, message, t, fault) ==
  Written(w, write(w.segments[w.current], dsk, newMessage(w.index, message, t), fault))

\* Wal.Write after wal.cycle(), c being what it gave
WriteCycled(message, t, fault, c) ==
  IF c.err # "nil"
    THEN [err |-> c.err, wal |-> c.wal, disk |-> c.disk, hit |-> c.hit, made |-> FALSE]
  ELSE WriteCurrent(c.wal, c.disk, message, t, fault)

\* Wal.Write: the entry is stamped t by time.Now(); made: newMessage was reached
WalWrite(w, dsk, message, t, fault) ==
  IF w.current = 0
    THEN [err |-> "ErrNoSegmentsFound", wal |-> w, disk |-> dsk, hit |-> FALSE,
          made |-> FALSE]
  ELSE IF Full(w) THEN WriteCycled(message, t, fault, cycle(w, dsk, fault))
  ELSE WriteCurrent(w, dsk, message, t, fault)

\* the loop of Load over the sorted paths: segments holds those loaded so far
RECURSIVE LoadSegments(_, _, _, _)
RECURSIVE LoadNext(_, _, _, _, _)
LoadSegments(dsk, paths, i, segments) ==
  IF i > Len(paths) THEN [err |-> "nil", segments |-> segments]
  ELSE LoadNext(dsk, paths, i, segments, loadSegment(dsk, paths[i]))

LoadNext(dsk, paths, i, segments, s) ==
  IF s.err # "nil" THEN [err |-> s.err, segments |-> <<>>]
  ELSE LoadSegments(dsk, paths, i + 1, Append(segments, s.seg))

\* wal.current.open() and the seek to the end of its file
OpenCurrent(s, dsk) == [open(s).seg EXCEPT !.file = OpenAt(Len(dsk[s.path]))]

\* LoadIndex taking every active segment for a non-empty one
LoadIndexNonEmpty(cur) == cur.lastIndex + 1

\* the next index Load derives from the active segment
LoadIndex(cur) ==
  IF cur.fileLength = 0 THEN cur.lastIndex ELSE cur.lastIndex + 1

\* Load, l being what loading the segments gave
Loaded(dsk, json, l) ==
  IF l.err # "nil" THEN [err |-> l.err, wal |-> <<>>]
  ELSE [err |-> "nil",
        wal |-> <<[current |-> Len(l.segments),
                   segments |-> [l.segments EXCEPT ![Len(l.segments)] = OpenCurrent(@, dsk)],
                   config |-> DecodeConfig(json),
                   index |-> LoadIndex(l.segments[Len(l.segments)])]>>]

\* Load(dir): config.json, then the *.wal files in the order of their names
Load(dsk, json) == Loaded(dsk, json, LoadSegments(dsk, SortPaths(DOMAIN dsk), 1, <<>>))

---------------------------------------------------------------------------
(* Reader *)

\* a ReaderOption: WithIndex(v) or WithTimestamp(At(v))
IndexOption(v) == [kind |-> "index", v |-> v]

TimestampOption(v) == [kind |-> "timestamp", v |-> v]

\* WithIndex(index)(reader)
WithIndex(r, index) ==
  [err |-> IF ~IsZero(r.timestamp) THEN "ErrIndexAndTimestampSet" ELSE "nil",
   reader |-> [r EXCEPT !.index = index]]

\* WithTimestamp(timestamp)(reader)
WithTimestamp(r, timestamp) ==
  [err |-> IF r.index # 0 THEN "ErrIndexAndTimestampSet" ELSE "nil",
   reader |-> [r EXCEPT !.timestamp = timestamp]]

\* for _, option := range options, up to the first error
RECURSIVE ApplyOptions(_, _, _)
ApplyOptions(r, options, i) ==
  IF i > Len(options) THEN [err |-> "nil", reader |-> r]
  ELSE LET o == IF options[i].kind = "index" THEN WithIndex(r, options[i].v)
                ELSE WithTimestamp(r, At(options[i].v))
       IN IF o.err # "nil" THEN o ELSE ApplyOptions(o.reader, options, i + 1)

\* IndexHit without its two equality tests
IndexHitInside(s, index) == index > s.firstIndex /\ index < s.lastIndex

\* the segment the index search of Wal.Reader picks
IndexHit(s, index) ==
  \/ (index > s.firstIndex /\ index < s.lastIndex)
  \/ index = s.firstIndex
  \/ index = s.lastIndex

\* TimestampHit without its two equality tests
TimestampHitOpen(segments, i, t) ==
  \/ (After(t, segments[i].firstTimestamp) /\ Before(t, segments[i].lastTimestamp))
  \/ /\ Len(segments) > i
     /\ After(t, segments[i].lastTimestamp)
     /\ Before(t, segments[i + 1].firstTimestamp)

\* the segment the timestamp search of Wal.Reader picks
TimestampHit(segments, i, t) ==
  LET s == segments[i] IN
  \/ (After(t, s.firstTimestamp) /\ Before(t, s.lastTimestamp))
  \/ Equal(t, s.firstTimestamp)
  \/ Equal(t, s.lastTimestamp)
  \/ /\ Len(segments) > i
     /\ After(t, s.lastTimestamp)
     /\ Before(t, segments[i + 1].firstTimestamp)

\* sindex after a loop that breaks at the first match: the least of the
\* matching positions, 0 for none
FirstHit(hits) ==
  IF hits = {} THEN 0 ELSE CHOOSE i \in hits : \A j \in hits : i <= j

\* IndexSegment falling back to the first segment for every miss
IndexSegmentFirst(segments, index) ==
  LET sindex == FirstHit({i \in 1..Len(segments) : IndexHit(segments[i], index)}) IN
  IF sindex # 0 THEN sindex ELSE 1

\* the segment Wal.Reader loads for a start index
IndexSegment(segments, index) ==
  LET sindex == FirstHit({i \in 1..Len(segments) : IndexHit(segments[i], index)}) IN
  IF sindex # 0 THEN sindex
  ELSE IF index < segments[1].firstIndex THEN 1
  ELSE Len(segments)

\* TimestampSegment without the test of the gap between two segments
TimestampSegmentNoGap(segments, t) ==
  LET sindex == FirstHit({i \in 1..Len(segments) :
                            \/ (After(t, segments[i].firstTimestamp)
                                  /\ Before(t, segments[i].lastTimestamp))
                            \/ Equal(t, segments[i].firstTimestamp)
                            \/ Equal(t, segments[i].lastTimestamp)}) IN
  IF sindex # 0 THEN sindex
  ELSE IF Before(t, segments[1].firstTimestamp) THEN 1
  ELSE Len(segments)

\* the segment Wal.Reader loads for a start timestamp
TimestampSegment(segments, t) ==
  LET sindex == FirstHit({i \in 1..Len(segments) : TimestampHit(segments, i, t)}) IN
  IF sindex # 0 THEN sindex
  ELSE IF Before(t, segments[1].firstTimestamp) THEN 1
  ELSE Len(segments)

\* for reader.index > i { entry, err := readEntry(...) ... i = entry.Index }
RECURSIVE SeekIndex(_, _, _, _)
RECURSIVE SeekIndexRead(_, _, _, _)
SeekIndex(f, pos, index, i) ==
  IF ~(index > i) THEN [err |-> "nil", pos |-> pos, i |-> i]
  ELSE SeekIndexRead(f, index, i, readEntry(f, pos))

SeekIndexRead(f, index, i, e) ==
  IF e.err = "EOF" THEN [err |-> "nil", pos |-> e.pos, i |-> i]
  ELSE IF e.err # "nil" THEN [err |-> e.err, pos |-> e.pos, i |-> i]
  ELSE SeekIndex(f, e.pos, index, e.entry.Index)

\* for reader.timestamp.After(t) { ... t = entry.Timestamp; i = entry.Index }
RECURSIVE SeekTimestamp(_, _, _, _, _)
RECURSIVE SeekTimestampRead(_, _, _, _)
SeekTimestamp(f, pos, timestamp, t, i) ==
  IF ~After(timestamp, t) THEN [err |-> "nil", pos |-> pos, i |-> i]
  ELSE SeekTimestampRead(f, timestamp, i, readEntry(f, pos))

SeekTimestampRead(f, timestamp, i, e) ==
  IF e.err = "EOF" THEN [err |-> "nil", pos |-> e.pos, i |-> i]
  ELSE IF e.err # "nil" THEN [err |-> e.err, pos |-> e.pos, i |-> i]
  ELSE SeekTimestamp(f, e.pos, timestamp, e.entry.Timestamp, e.entry.Index)

NoReader == <<>>

\* reader := &Reader{wal: wal}
NewReader == [index |-> 0, timestamp |-> ZeroTime, current |-> <<>>]

\* StartSegment with the timestamp search falling back to the first segment
StartSegmentFirst(segments, r) ==
  IF IsZero(r.timestamp) THEN IndexSegment(segments, r.index)
  ELSE IF FirstHit({i \in 1..Len(segments) : TimestampHit(segments, i, r.timestamp)}) # 0
    THEN TimestampSegment(segments, r.timestamp)
  ELSE 1

\* the segment Wal.Reader loads
StartSegment(segments, r) ==
  IF IsZero(r.timestamp) THEN IndexSegment(segments, r.index)
  ELSE TimestampSegment(segments, r.timestamp)

\* the scan of Wal.Reader over the file f of the segment cur
Seek(f, r, cur) ==
  IF IsZero(r.timestamp) THEN SeekIndex(f, 0, r.index, cur.firstIndex)
  ELSE SeekTimestamp(f, 0, r.timestamp, cur.firstTimestamp, cur.firstIndex)

\* the end of Wal.Reader, g being what gotoPreviousEntry gave
ReaderBack(r, cur, i, g) ==
  IF g.err \notin {"nil", "ErrNoPreviousEntry"}
    THEN [err |-> g.err, reader |-> NoReader]
  ELSE [err |-> "nil",
        reader |-> <<[r EXCEPT !.index = i,
                               !.current = <<[cur EXCEPT !.file = OpenAt(g.pos)]>>]>>]

\* Wal.Reader after the scan, k being what it gave
ReaderSought(f, r, cur, k) ==
  IF k.err # "nil" THEN [err |-> k.err, reader |-> NoReader]
  ELSE ReaderBack(r, cur, k.i, gotoPreviousEntry(f, k.pos))

\* Wal.Reader after loadSegment, l being what it gave
ReaderLoaded(dsk, r, l) ==
  IF l.err # "nil" THEN [err |-> l.err, reader |-> NoReader]
  ELSE ReaderSought(dsk[l.seg.path], r, open(l.seg).seg, Seek(dsk[l.seg.path], r, l.seg))

\* Wal.Reader after the options, o being what they gave
ReaderWith(w, dsk, o) ==
  IF o.err # "nil" THEN [err |-> o.err, reader |-> NoReader]
  ELSE ReaderLoaded(dsk, o.reader,
                    loadSegment(dsk, w.segments[StartSegment(w.segments, o.reader)].path))

\* Wal.Reader(options...)
Reader(w, dsk, options) == ReaderWith(w, dsk, ApplyOptions(NewReader, options, 1))

\* slices.IndexFunc(r.wal.segments, ...): the position of path, 0 for none
PathIndex(segments, path) ==
  FirstHit({i \in 1..Len(segments) : segments[i].path = path})

\* AfterEntry leaving the index of the entry returned
AfterEntrySame(entry) == entry.Index

\* the index Next leaves in the reader after returning entry
AfterEntry(entry) == entry.Index + 1

\* whether Next leaves the current segment for the next one
PastSegment(r, cur) == r.index > cur.lastIndex

\* the end of Reader.Next, e being what readEntry gave
NextEntry(r, e) ==
  IF e.err # "nil"
    THEN [err |-> e.err, entry |-> NoEntry,
          reader |-> [r EXCEPT !.current[1].file = OpenAt(e.pos)]]
  ELSE [err |-> "nil", entry |-> e.entry,
        reader |-> [r EXCEPT !.current[1].file = OpenAt(e.pos),
                             !.index = AfterEntry(e.entry)]]

\* entry, err := readEntry(r.current.file)
NextRead(r, dsk) ==
  CHOOSE n \in {NextEntry(r, e) :
                  e \in {readEntry(dsk[r.current[1].path], r.current[1].file.pos)}} : TRUE

\* Reader.Next after loading the next segment, l being what loadSegment gave
NextLoaded(r, dsk, l) ==
  IF l.err # "nil"
    THEN [err |-> l.err, entry |-> NoEntry, reader |-> [r EXCEPT !.current = <<>>]]
  ELSE NextRead([r EXCEPT !.current = <<open(l.seg).seg>>], dsk)

\* Reader.Next past the current segment, which is the sindex-th of the log
NextSegment(r, w, dsk, sindex) ==
  IF sindex = 0 \/ sindex + 1 > Len(w.segments)
    THEN [err |-> "ErrNoSegmentsFound", entry |-> NoEntry, reader |-> r]
  ELSE CHOOSE n \in {NextLoaded(r, dsk, l) :
                       l \in {loadSegment(dsk, w.segments[sindex + 1].path)}} : TRUE

\* Reader.Next with the current segment's file open
NextOpen(r, w, dsk) ==
  IF PastSegment(r, r.current[1])
    THEN NextSegment(r, w, dsk, PathIndex(w.segments, r.current[1].path))
  ELSE NextRead(r, dsk)

\* if r.current.file == nil { r.current.open() }
Reopen(s) == IF s.file.open THEN s ELSE open(s).seg

\* Reader.Next
ReaderNext(r, w, dsk) ==
  IF r.current = <<>>
    THEN [err |-> "ErrNoSegmentsFound", entry |-> NoEntry, reader |-> r]
  ELSE NextOpen([r EXCEPT !.current[1] = Reopen(@)], w, dsk)

\* Reader.Close
ReaderClose(r) ==
  IF r.current = <<>> THEN [err |-> "nil", reader |-> r]
  ELSE [err |-> close(r.current[1], NoFault).err,
        reader |-> [r EXCEPT !.current[1] = close(@, NoFault).seg]]

---------------------------------------------------------------------------
(* The log, its reader and their callers.  The model follows one Wal, one  *)
(* Reader of it and one restart of the process (Load).                     *)

NoCall == [op |-> "New", err |-> "nil"]

\* the codec's state: the bytes written so far, the entries they were made
\* from, the read cursor, and the last call with the cursor it started from
NoCodec ==
  [file |-> <<>>, entries |-> <<>>, pos |-> 0,
   out |-> [op |-> "none", from |-> 0, err |-> "nil", entry |-> NoEntry]]

\* how the reader was opened: its options and the number of entries
\* appended at that time, and whether Close was called on it
NoInfo == [options |-> <<>>, openN |-> 0, closed |-> FALSE]

IndexOpts == 0..(MaxWrites + 1)

TimeOpts == 1..(2 * MaxWrites + 2)

ReaderOptions ==
  {<<>>} \cup {<<IndexOption(k)>> : k \in IndexOpts}
    \cup {<<TimestampOption(t)>> : t \in TimeOpts}
    \cup {<<IndexOption(k), TimestampOption(t)>> : k \in {0, 1}, t \in {1, 2}}
    \cup {<<TimestampOption(t), IndexOption(k)>> : k \in {0, 1}, t \in {1, 2}}

Init ==
  \E m \in SegSizes :
    /\ wal = New(m).wal
    /\ disk = New(m).disk
    /\ cfgFile = New(m).cfgFile
    /\ now = 1
    /\ rd = NoReader
    /\ appended = <<>>
    /\ werrs = 0
    /\ faults = 0
    /\ got = <<>>
    /\ ret = NoCall
    /\ rinfo = NoInfo
    /\ old = <<>>
    /\ codec = NoCodec

\* WalAfterReader with the reader working on the Wal's own segment
WalAfterReaderShared(w, r) ==
  IF r = NoReader \/ r[1].current = <<>> THEN w
  ELSE [w EXCEPT !.segments =
          [i \in 1..Len(w.segments) |->
             IF w.segments[i].path = r[1].current[1].path
               THEN [w.segments[i] EXCEPT !.file = r[1].current[1].file]
             ELSE w.segments[i]]]

\* the Wal after a call of wal.Reader, reader.Next or reader.Close that left
\* the reader r: the reader's segment is a copy made by loadSegment, with a
\* file handle of its own, and no field of the Wal is assigned
WalAfterReader(w, r) == w

\* wal.Write(message) at time t, r being what the call gave
Wrote(message, t, fault, r) ==
  /\ fault # NoFault => (faults < MaxFaults /\ r.hit)
  /\ wal' = r.wal
  /\ disk' = r.disk
  /\ now' = IF r.made THEN t.sec ELSE now
  /\ appended' = IF r.err = "nil"
                   THEN Append(appended, newMessage(wal.index, message, t))
                   ELSE appended
  /\ werrs' = IF r.err = "nil" THEN werrs ELSE werrs + 1
  /\ faults' = IF fault # NoFault THEN faults + 1 ELSE faults
  /\ ret' = [op |-> "Write", err |-> r.err]
  /\ UNCHANGED <<cfgFile, codec, rd, got, rinfo, old>>

\* wal.Write(message), d seconds after the last time.Now()
Write(message, d, fault) ==
  /\ Len(appended) + werrs < MaxWrites
  /\ Wrote(message, At(now + d), fault,
           WalWrite(wal, disk, message, At(now + d), fault))

\* wal.Close(), r being what the call gave
DidClose(fault, r) ==
  /\ fault # NoFault => (faults < MaxFaults /\ r.hit)
  /\ wal' = r.wal
  /\ faults' = IF fault # NoFault THEN faults + 1 ELSE faults
  /\ ret' = [op |-> "Close", err |-> r.err]
  /\ UNCHANGED <<disk, cfgFile, codec, now, rd, appended, werrs, got, rinfo, old>>

\* wal.Close(); with wal.current nil the call panics
Close(fault) ==
  /\ wal.current # 0
  /\ DidClose(fault, WalClose(wal, fault))

\* Load(dir), r being what the call gave
DidLoad(r) ==
  /\ r.err = "nil"
  /\ wal' = r.wal[1]
  /\ old' = <<wal>>
  /\ rd' = NoReader
  /\ got' = <<>>
  /\ rinfo' = NoInfo
  /\ ret' = [op |-> "Load", err |-> r.err]
  /\ UNCHANGED <<disk, cfgFile, codec, now, appended, werrs, faults>>

\* the process drops its Wal and its Reader and calls Load(dir)
DoLoad ==
  /\ old = <<>>
  /\ DidLoad(Load(disk, cfgFile))

\* wal.Reader(options...), r being what the call gave
Opened(options, r) ==
  /\ rd' = r.reader
  /\ got' = <<>>
  /\ rinfo' = [options |-> options, openN |-> Len(appended), closed |-> FALSE]
  /\ ret' = [op |-> "Reader", err |-> r.err]
  /\ wal' = WalAfterReader(wal, r.reader)
  /\ UNCHANGED <<disk, cfgFile, codec, now, appended, werrs, faults, old>>

\* wal.Reader(options...)
OpenReader(options) ==
  /\ rd = NoReader
  /\ Opened(options, Reader(wal, disk, options))

\* reader.Next(), r being what the call gave
DidNext(r) ==
  /\ rd' = <<r.reader>>
  /\ got' = IF r.err = "nil" THEN Append(got, r.entry) ELSE got
  /\ ret' = [op |-> "Next", err |-> r.err]
  /\ wal' = WalAfterReader(wal, <<r.reader>>)
  /\ UNCHANGED <<disk, cfgFile, codec, now, appended, werrs, faults, rinfo, old>>

\* reader.Next()
ReadNext ==
  /\ rd # NoReader
  /\ Len(got) < MaxNexts
  /\ \E r \in {ReaderNext(rd[1], wal, disk)} : DidNext(r)

\* reader.Close()
CloseReader ==
  /\ rd # NoReader
  /\ rd' = <<ReaderClose(rd[1]).reader>>
  /\ ret' = [op |-> "Reader.Close", err |-> ReaderClose(rd[1]).err]
  /\ rinfo' = [rinfo EXCEPT !.closed = TRUE]
  /\ wal' = WalAfterReader(wal, <<ReaderClose(rd[1]).reader>>)
  /\ UNCHANGED <<disk, cfgFile, codec, now, appended, werrs, faults, got, old>>

\* the log and a reader of it, every call of the file system succeeding
Next ==
  \/ \E message \in Payloads, d \in Steps : Write(message, d, NoFault)
  \/ \E options \in ReaderOptions : OpenReader(options)
  \/ ReadNext

Spec == Init /\ [][Next]_vars

\* the log written, closed and loaded again, and a reader from the beginning
NextLoad ==
  \/ \E message \in Payloads, d \in Steps : Write(message, d, NoFault)
  \/ Close(NoFault)
  \/ DoLoad
  \/ OpenReader(<<>>)
  \/ ReadNext

SpecLoad == Init /\ [][NextLoad]_vars

\* the log with calls of the file system that fail
NextFault ==
  \/ \E message \in Payloads, d \in Steps, fault \in Faults : Write(message, d, fault)
  \/ \E fault \in Faults : Close(fault)
  \/ DoLoad

SpecFault == Init /\ [][NextFault]_vars

\* writeEntry(writer, m) on a writer that appends
EncodeEntry(m) ==
  /\ Len(codec.entries) < MaxEntries
  /\ codec' = [codec EXCEPT
                 !.file = WriteAt(@, Len(@), EntryBytes(m), Len(EntryBytes(m))),
                 !.entries = Append(@, m),
                 !.out = [op |-> "writeEntry", from |-> codec.pos, err |-> "nil",
                          entry |-> NoEntry]]
  /\ UNCHANGED <<disk, cfgFile, wal, now, rd, appended, werrs, faults, got, ret, rinfo,
                 old>>

\* a call op of the codec at the cursor, r being what it gave
Decoded(op, r) ==
  /\ codec' = [codec EXCEPT !.pos = r.pos,
                            !.out = [op |-> op, from |-> codec.pos, err |-> r.err,
                                     entry |-> r.entry]]
  /\ UNCHANGED <<disk, cfgFile, wal, now, rd, appended, werrs, faults, got, ret, rinfo,
                 old>>

\* readEntry(reader)
DecodeEntry == Decoded("readEntry", readEntry(codec.file, codec.pos))

\* readPreviousEntry(reader)
DecodePrevious == Decoded("readPreviousEntry", readPreviousEntry(codec.file, codec.pos))

\* gotoPreviousEntry(reader), g being what it gave
WentBack(g) == Decoded("gotoPreviousEntry", [err |-> g.err, pos |-> g.pos, entry |-> NoEntry])

GotoPrevious == WentBack(gotoPreviousEntry(codec.file, codec.pos))

InitCodec ==
  /\ wal = New(0).wal
  /\ disk = New(0).disk
  /\ cfgFile = New(0).cfgFile
  /\ now = 1
  /\ rd = NoReader
  /\ appended = <<>>
  /\ werrs = 0
  /\ faults = 0
  /\ got = <<>>
  /\ ret = NoCall
  /\ rinfo = NoInfo
  /\ old = <<>>
  /\ codec = NoCodec

\* the entry codec alone: entries written back to back and read both ways
NextCodec ==
  \/ \E index \in CodecIndexes, data \in CodecData, t \in CodecTimes :
       EncodeEntry(newMessage(index, data, t))
  \/ DecodeEntry
  \/ DecodePrevious
  \/ GotoPrevious

SpecCodec == InitCodec /\ [][NextCodec]_vars

\* the offsets at which the records of the file f start, from pos on, as
\* their length fields lay them out
RECURSIVE EntryStarts(_, _)
EntryStarts(f, pos) ==
  IF pos + ConstEntrySize > Len(f) THEN {}
  ELSE {pos} \cup EntryStarts(f, pos + ConstEntrySize + GetLE(SubSeq(f, pos + 9, pos + 12)))

\* the positions of the data bytes of the record at offset s of f
DataBytes(f, s) == (s + 13)..(s + 12 + GetLE(SubSeq(f, s + 9, s + 12)))

\* the positions of its crc32 field
CrcBytes(f, s) ==
  (s + 28 + GetLE(SubSeq(f, s + 9, s + 12)))..(s + 31 + GetLE(SubSeq(f, s + 9, s + 12)))

\* a stored byte of a data or crc32 field changes under the program
Corrupt(path, i) ==
  /\ faults < MaxFaults
  /\ \E s \in EntryStarts(disk[path], 0) :
       i \in DataBytes(disk[path], s) \cup CrcBytes(disk[path], s)
  /\ disk' = [disk EXCEPT ![path][i] = (@ + 1) % 256]
  /\ faults' = faults + 1
  /\ ret' = [op |-> "Corrupt", err |-> "nil"]
  /\ UNCHANGED <<cfgFile, codec, wal, now, rd, appended, werrs, got, rinfo, old>>

\* the log, a reader from the beginning, and a stored byte that changes
NextCorrupt ==
  \/ \E message \in Payloads, d \in Steps : Write(message, d, NoFault)
  \/ \E path \in DOMAIN disk : \E i \in 1..Len(disk[path]) : Corrupt(path, i)
  \/ OpenReader(<<>>)
  \/ ReadNext

SpecCorrupt == Init /\ [][NextCorrupt]_vars

\* the writer and one reader from the beginning
NextLive ==
  \/ \E message \in Payloads, d \in Steps : Write(message, d, NoFault)
  \/ OpenReader(<<>>)
  \/ ReadNext

\* the reader keeps calling Next: a call that would change anything is
\* made in the end
SpecLive == Init /\ [][NextLive]_vars /\ WF_vars(ReadNext)

\* the readers opened, read and closed here
CloseOptions == {<<>>, <<IndexOption(1)>>, <<TimestampOption(3)>>}

\* the log and a reader that is closed and used again
NextClose ==
  \/ \E message \in Payloads, d \in Steps : Write(message, d, NoFault)
  \/ \E options \in CloseOptions : OpenReader(options)
  \/ ReadNext
  \/ CloseReader

SpecClose == Init /\ [][NextClose]_vars

---------------------------------------------------------------------------
(* Properties.  N is the number of entries appended; the reader properties *)
(* speak of a reader of a log that received no append since it was opened. *)

N == Len(appended)

\* the last call was wal.Reader or reader.Next on a reader opened with these
\* options, and no Write followed the opening
ReaderOf(options) ==
  /\ rinfo.options = options
  /\ rinfo.openN = N
  /\ ret.op \in {"Reader", "Next"}

ReaderOpened == ret.op = "Reader" => (ret.err = "nil" /\ rd # NoReader)

NextFailed == ret.op = "Next" /\ ret.err # "nil"

\* the entries returned so far are those of index k, k + 1, ... as appended
InOrderFrom(k) ==
  \A j \in 1..Len(got) :
    /\ k + j <= N
    /\ got[j].Index = k + j - 1
    /\ got[j].Data = appended[k + j].Data

\* Next fails only when the entries k .. N-1 were all returned
ThroughEnd(k) == NextFailed => k + Len(got) = N

\* only the final entry is returned, and then Next fails with ErrNoSegmentsFound
OnlyFinal ==
  /\ Len(got) <= 1
  /\ Len(got) = 1 => (got[1].Index = N - 1 /\ got[1].Data = appended[N].Data)
  /\ NextFailed => (Len(got) = 1 /\ ret.err = "ErrNoSegmentsFound")

\* the position in appended of the first entry stamped t or later, 0 for none
LowestAt(t) == FirstHit({i \in 1..N : ~Before(appended[i].Timestamp, At(t))})

\* t lies strictly between the last timestamp of segment i and the first
\* timestamp of segment i + 1
InGap(i, t) ==
  /\ After(At(t), wal.segments[i].lastTimestamp)
  /\ Before(At(t), wal.segments[i + 1].firstTimestamp)

Gaps(t) == {i \in 1..(Len(wal.segments) - 1) : InGap(i, t)}

\* C1: after N successful Writes, whatever MaxSegmentSize is, a Reader opened
\* with no options returns on successive Next calls exactly the N entries:
\* their Data are the payloads in append order, their Index 0, 1, ..., N-1,
\* and no Next fails before all N were returned
C1_FullForwardRead ==
  ReaderOf(<<>>) => (ReaderOpened /\ InOrderFrom(0) /\ ThroughEnd(0))

C1_Witness ==
  /\ ReaderOf(<<>>)
  /\ N >= 3
  /\ Len(got) = N
  /\ Len(wal.segments) >= 2
  /\ NextFailed

\* C2: a Reader opened with no options on a log of N >= 0 entries that has
\* returned all N entries fails every further Next with ErrNoSegmentsFound
C2_EndOfLog ==
  (ReaderOf(<<>>) /\ Len(got) = N /\ NextFailed) => ret.err = "ErrNoSegmentsFound"

\* C3: for 0 <= k <= N-1, a Reader opened with WithIndex(k) returns entry k
\* first and then k+1, ..., N-1 in order, across segments, none repeated and
\* none skipped
C3_ReadFromIndex ==
  \A k \in IndexOpts :
    (ReaderOf(<<IndexOption(k)>>) /\ k <= N - 1)
      => (ReaderOpened /\ InOrderFrom(k) /\ ThroughEnd(k))

C3_Witness ==
  /\ ReaderOf(<<IndexOption(1)>>)
  /\ N >= 3
  /\ Len(got) = N - 1
  /\ Len(wal.segments) >= 3
  /\ NextFailed

\* C4: on a non-empty log whose last index is N-1, a Reader opened with
\* WithIndex(k), k > N-1, returns the final entry on its first Next and the
\* second Next fails with ErrNoSegmentsFound
C4_IndexPastEnd ==
  \A k \in IndexOpts :
    (ReaderOf(<<IndexOption(k)>>) /\ N >= 1 /\ k > N - 1)
      => (ReaderOpened /\ OnlyFinal)

C4_Witness ==
  /\ ReaderOf(<<IndexOption(N + 1)>>)
  /\ N >= 2
  /\ Len(wal.segments) >= 2
  /\ Len(got) = 1
  /\ NextFailed

C6_TimestampInGap ==
  \A t \in TimeOpts : \A i \in Gaps(t) :
    ReaderOf(<<TimestampOption(t)>>)
      => /\ ReaderOpened
         /\ Len(got) >= 1 =>
              got[1].Index \in {wal.segments[i].lastIndex, wal.segments[i + 1].firstIndex}
         /\ \A j \in 1..Len(got) :
              /\ got[j].Index = got[1].Index + j - 1
              /\ got[j].Index <= N - 1
              /\ got[j].Data = appended[got[j].Index + 1].Data
         /\ NextFailed => (Len(got) >= 1 /\ got[Len(got)].Index = N - 1)

C6_Witness ==
  /\ ReaderOf(<<TimestampOption(2)>>)
  /\ 1 \in Gaps(2)
  /\ Len(wal.segments) >= 3
  /\ Len(got) >= 2
  /\ NextFailed

\* C7: on a non-empty log, a Reader opened with a timestamp later than every
\* entry's returns the final entry on its first Next and the second Next
\* fails with ErrNoSegmentsFound
C7_TimestampPastEnd ==
  \A t \in TimeOpts :
    (ReaderOf(<<TimestampOption(t)>>) /\ N >= 1 /\ LowestAt(t) = 0)
      => (ReaderOpened /\ OnlyFinal)

C7_Witness ==
  /\ \E t \in TimeOpts : ReaderOf(<<TimestampOption(t)>>) /\ LowestAt(t) = 0
  /\ N >= 2
  /\ Len(wal.segments) >= 2
  /\ Len(got) = 1
  /\ NextFailed

\* C8: wal.Reader called with both WithIndex(i) and WithTimestamp(t), t not
\* zero, in either order and for every i, 0 included, fails with
\* ErrIndexAndTimestampSet and returns no reader
C8_BothOptions ==
  (ret.op = "Reader" /\ Len(rinfo.options) = 2)
    => (ret.err = "ErrIndexAndTimestampSet" /\ rd = NoReader)

\* the log was written without a failing Write and closed, and then loaded
LoadedAfterClose ==
  /\ old # <<>>
  /\ werrs = 0
  /\ ~old[1].segments[old[1].current].file.open

\* C9: Load of a directory made by New, Writes and Close returns a log with
\* the configuration of the writer's, as many segments with the same
\* first index, last index and file length each, and the next index N; a
\* fresh Reader of the loaded log reads all the entries in order
C9_LoadMatchesWriter ==
  LoadedAfterClose =>
    /\ ret.op = "Load" =>
         /\ wal.config = old[1].config
         /\ Len(wal.segments) = Len(old[1].segments)
         /\ \A i \in 1..Len(wal.segments) :
              /\ wal.segments[i].firstIndex = old[1].segments[i].firstIndex
              /\ wal.segments[i].lastIndex = old[1].segments[i].lastIndex
              /\ wal.segments[i].fileLength = old[1].segments[i].fileLength
         /\ wal.index = old[1].index
         /\ wal.index = N
    /\ ReaderOf(<<>>) => (ReaderOpened /\ InOrderFrom(0) /\ ThroughEnd(0))

C9_Witness ==
  /\ LoadedAfterClose
  /\ Len(old[1].segments) >= 2
  /\ wal.index = N
  /\ N >= 3
  /\ ReaderOf(<<>>)
  /\ Len(got) = N
  /\ NextFailed

\* C10: in every state reached by Writes, failing ones included, the next
\* index is active.lastIndex + 1 when the active segment is not empty, and
\* active.lastIndex (= active.firstIndex) when it is empty
C10_NextIndex ==
  wal.current # 0 =>
    IF wal.segments[wal.current].fileLength > 0
      THEN wal.index = wal.segments[wal.current].lastIndex + 1
    ELSE /\ wal.index = wal.segments[wal.current].lastIndex
         /\ wal.index = wal.segments[wal.current].firstIndex

\* the step is a call of wal.Write
WriteStep == Len(appended') + werrs' = Len(appended) + werrs + 1

\* the active segment is full at the time of the call
ActiveFull ==
  /\ wal.current # 0
  /\ wal.config.MaxSegmentSize > 0
  /\ wal.segments[wal.current].fileLength >= wal.config.MaxSegmentSize

\* the step appends one segment to the list and leaves the others in place
SegmentAdded ==
  /\ Len(wal'.segments) = Len(wal.segments) + 1
  /\ \A i \in 1..Len(wal.segments) : wal'.segments[i].path = wal.segments[i].path

SegmentsKept == Len(wal'.segments) = Len(wal.segments)

\* C11: a Write adds a segment exactly when MaxSegmentSize > 0 and the active
\* segment's fileLength >= MaxSegmentSize at the call (and, where calls of
\* the file system may fail, the Write returns nil); the new segment's
\* firstIndex is the index given to the entry, the entry is the content of
\* the new segment's file, and with MaxSegmentSize = 0 there is one segment
C11_CycleRule ==
  /\ [](wal.config.MaxSegmentSize = 0 => Len(wal.segments) = 1)
  /\ [][WriteStep =>
          /\ SegmentAdded \/ SegmentsKept
          /\ SegmentAdded => ActiveFull
          /\ (ActiveFull /\ ret'.err = "nil") => SegmentAdded
          /\ SegmentAdded =>
               /\ wal'.segments[Len(wal'.segments)].firstIndex = wal.index
               /\ wal'.current = Len(wal'.segments)
          /\ (SegmentAdded /\ ret'.err = "nil") =>
               /\ appended'[Len(appended')].Index = wal.index
               /\ disk'[wal'.segments[wal'.current].path]
                    = EntryBytes(appended'[Len(appended')])
               /\ wal'.segments[wal'.current].lastIndex = wal.index]_vars

C11_Witness ==
  /\ ret = [op |-> "Write", err |-> "nil"]
  /\ Len(wal.segments) >= 2
  /\ wal.segments[1].fileLength = wal.config.MaxSegmentSize
  /\ wal.current = Len(wal.segments)
  /\ wal.segments[wal.current].firstIndex = wal.segments[wal.current].lastIndex
  /\ Len(disk[wal.segments[wal.current].path]) > 0

\* C12: in every state reached by Writes, those failing inside cycle
\* included, the segment list is strictly ascending by firstIndex and the
\* active segment is its last element
C12_SegmentOrder ==
  /\ \A i \in 1..(Len(wal.segments) - 1) :
       wal.segments[i].firstIndex < wal.segments[i + 1].firstIndex
  /\ wal.current = Len(wal.segments)

\* the sum of 35 + len(Data) over the entries the file f holds from pos on
RECURSIVE EntrySizes(_, _)
RECURSIVE EntrySizesAfter(_, _)
EntrySizes(f, pos) == EntrySizesAfter(f, readEntry(f, pos))

EntrySizesAfter(f, e) ==
  IF e.err # "nil" THEN 0
  ELSE ConstEntrySize + Len(e.entry.Data) + EntrySizes(f, e.pos)

\* C13: in every reachable state each segment's fileLength is the sum of
\* 35 + len(Data) over the entries stored in its file, for the metadata
\* kept by Write and for the metadata recomputed by Load
C13_FileLength ==
  \A i \in 1..Len(wal.segments) :
    wal.segments[i].fileLength = EntrySizes(disk[wal.segments[i].path], 0)

\* the step is a call of wal.Reader, reader.Next or reader.Close
ReaderStep == ret'.op \in {"Reader", "Next", "Reader.Close"}

C15_ClosedReaderEnds ==
  (rinfo.closed /\ ret.op = "Next") => ret.err # "nil"

RECURSIVE StartOf(_)
StartOf(k) ==
  IF k <= 1 THEN 0
  ELSE StartOf(k - 1) + ConstEntrySize + Len(codec.entries[k - 1].Data)

\* C17: for every entry E built by newMessage, readEntry on the bytes of
\* writeEntry(E) returns E (Index, Length, Data, Crc32 and the instant of
\* Timestamp) and consumes 35 + len(Data) bytes, so that readEntry at the
\* start of the k-th of the entries written back to back returns that entry
\* and leaves the cursor at the start of the next
C17_CodecRoundTrip ==
  /\ \A k \in 1..Len(codec.entries) :
       readEntry(EntryBytes(codec.entries[k]), 0)
         = [err |-> "nil", entry |-> codec.entries[k],
            pos |-> ConstEntrySize + Len(codec.entries[k].Data)]
  /\ \A k \in 1..Len(codec.entries) :
       (codec.out.op = "readEntry" /\ codec.out.from = StartOf(k))
         => /\ codec.out.err = "nil"
            /\ codec.out.entry = codec.entries[k]
            /\ codec.pos = StartOf(k + 1)

C17_Witness ==
  /\ codec.out.op = "readEntry"
  /\ codec.out.err = "nil"
  /\ codec.out.from > ConstEntrySize
  /\ codec.out.entry.Index = 258
  /\ codec.out.entry.Data = <<0, 255, 7>>
  /\ codec.out.entry.Timestamp = [sec |-> 259, nsec |-> 513]

\* C18: with the cursor just after the k-th entry, gotoPreviousEntry moves it
\* back 35 + len(Data) bytes to the start of that entry and readPreviousEntry
\* returns that entry; with the cursor at offset 0 both fail with
\* ErrNoPreviousEntry and leave the cursor at offset 0
C18_BackwardTraversal ==
  /\ codec.out.op \in {"gotoPreviousEntry", "readPreviousEntry"} =>
       IF codec.out.from = 0
         THEN codec.out.err = "ErrNoPreviousEntry" /\ codec.pos = 0
         ELSE \E k \in 1..Len(codec.entries) :
                /\ codec.out.from = StartOf(k + 1)
                /\ codec.out.err = "nil"
                /\ codec.out.op = "gotoPreviousEntry" =>
                     /\ codec.pos = StartOf(k)
                     /\ codec.pos
                          = codec.out.from - (ConstEntrySize + Len(codec.entries[k].Data))
                /\ codec.out.op = "readPreviousEntry" =>
                     /\ codec.out.entry = codec.entries[k]
                     /\ codec.pos = codec.out.from

C18_Witness ==
  /\ codec.out.op = "gotoPreviousEntry"
  /\ Len(codec.entries) = 2
  /\ codec.out.from = Len(codec.file)
  /\ codec.pos = StartOf(2)
  /\ Len(codec.entries[1].Data) # Len(codec.entries[2].Data)
  /\ Len(codec.entries[2].Data) = 3

\* the crc32 field of the record at offset s of f is not the CRC-32C of its
\* data bytes
StoredCrcDiffers(f, s) ==
  Checksum([j \in 1..Cardinality(DataBytes(f, s)) |-> f[s + 12 + j]])
    # [j \in 1..4 |-> f[s + 27 + Cardinality(DataBytes(f, s)) + j]]

\* the reader's cursor is at the start of a record whose crc32 field differs
AtCorruptEntry ==
  /\ rd # NoReader
  /\ rd[1].current # <<>>
  /\ ~PastSegment(rd[1], rd[1].current[1])
  /\ rd[1].current[1].file.pos \in EntryStarts(disk[rd[1].current[1].path], 0)
  /\ StoredCrcDiffers(disk[rd[1].current[1].path], rd[1].current[1].file.pos)

\* C19: readEntry fails with ErrCrc32Mismatch and returns no entry whenever
\* the stored crc32 field differs from the CRC-32C of the stored data bytes;
\* a Next that meets such a record returns that error and no entry, and no
\* entry a reader returns differs from the entry that was appended
C19_CrcMismatch ==
  /\ [](\A path \in DOMAIN disk : \A s \in EntryStarts(disk[path], 0) :
          StoredCrcDiffers(disk[path], s) =>
            /\ readEntry(disk[path], s).err = "ErrCrc32Mismatch"
            /\ readEntry(disk[path], s).entry = NoEntry)
  /\ [](\A j \in 1..Len(got) : got[j] = appended[got[j].Index + 1])
  /\ [][(ret'.op = "Next" /\ AtCorruptEntry)
          => (ret'.err = "ErrCrc32Mismatch" /\ got' = got)]_vars

C19_Witness ==
  /\ ret = [op |-> "Next", err |-> "ErrCrc32Mismatch"]
  /\ faults >= 1
  /\ Len(got) >= 1
  /\ Len(appended) >= 3

\* C20: under any interleaving of the writer's Writes with one reader's
\* Nexts, the indices that successive successful Nexts return are consecutive
C20_ConsecutiveNexts ==
  \A j \in 2..Len(got) : got[j].Index = got[j - 1].Index + 1

\* the reader has returned the entry with index k
Returned(k) == \E j \in 1..Len(got) : got[j].Index = k

\* C21: a reader opened at the beginning that keeps calling Next returns in
\* the end every entry whose Write returned nil, the entries appended after
\* the reader was opened included
C21_ReaderCatchesUp ==
  \A k \in 0..(MaxWrites - 1) :
    (rd # NoReader /\ Len(appended) > k) ~> Returned(k)

\* what a segment records of its file: all its fields but the file handle
Recorded(s) ==
  [firstIndex |-> s.firstIndex, lastIndex |-> s.lastIndex,
   firstTimestamp |-> s.firstTimestamp, lastTimestamp |-> s.lastTimestamp,
   path |-> s.path, fileLength |-> s.fileLength]

\* the step leaves the next index, the segment list, the active segment and
\* what every segment records as they were
LogKept ==
  /\ wal'.index = wal.index
  /\ wal'.current = wal.current
  /\ Len(wal'.segments) = Len(wal.segments)
  /\ \A i \in 1..Len(wal.segments) :
       Recorded(wal'.segments[i]) = Recorded(wal.segments[i])

\* C22: a Write that returns an error leaves the log as it was before the
\* call: the next index, the segment list, the active segment and every
\* segment's firstIndex, lastIndex, timestamps and fileLength
C22_FailedWriteKeepsLog ==
  [][(WriteStep /\ ret'.err # "nil") => LogKept]_vars

\* the size of the last entry in the file of segment s, every Write so far
\* having returned nil
LastSize(s) == size(appended[s.lastIndex + 1])

\* C23: with MaxSegmentSize = M > 0, after Writes that all returned nil,
\* every segment but the active one is non-empty with fileLength >= M, and
\* every non-empty segment's fileLength less the size of its last entry is
\* < M
C23_RolloverThreshold ==
  wal.config.MaxSegmentSize > 0 =>
    \A i \in 1..Len(wal.segments) :
      /\ i # wal.current =>
           /\ wal.segments[i].fileLength > 0
           /\ wal.segments[i].fileLength >= wal.config.MaxSegmentSize
      /\ wal.segments[i].fileLength > 0 =>
           wal.segments[i].fileLength - LastSize(wal.segments[i])
             < wal.config.MaxSegmentSize

C23_Witness ==
  /\ wal.config.MaxSegmentSize > 0
  /\ Len(wal.segments) = 2
  /\ wal.current = 2
  /\ wal.segments[1].fileLength > wal.config.MaxSegmentSize
  /\ wal.segments[2].fileLength > 0

=============================================================================
